---- MODULE Spec2Model ----
(***************************************************************************)
(* Model of the pharma feedback backend (src/app.py): six Flask handlers   *)
(* over three spreadsheet tables (Feedback, Products, AdminUsers) and the  *)
(* Gemini annotation helpers.  Requests are handled concurrently, one      *)
(* handler per request; each handler advances through the statements of    *)
(* its try block, and any statement may raise into the handler's except    *)
(* clause.                                                                 *)
(***************************************************************************)
EXTENDS Integers, Sequences, FiniteSets, TLC

VARIABLES
    GEMINI_API_KEY,   \* os.environ.get('GEMINI_API_KEY'), read once at import
    GCP_CREDENTIALS,  \* parsed credential blob, or None when it did not parse
    Feedback,         \* data rows of worksheet "Feedback", in table order
    Products,         \* first column of worksheet "Products", header first
    AdminUsers,       \* records of worksheet "AdminUsers", in table order
    req,              \* per request: handler, position, locals and response
    arrived,          \* number of requests received so far (ids 1..arrived)
    clock,            \* the UTC clock read by datetime.utcnow()
    fence             \* the fence-stripping study: texts and what was computed

vars == <<GEMINI_API_KEY, GCP_CREDENTIALS, Feedback, Products, AdminUsers,
          req, arrived, clock, fence>>

tables == <<Feedback, Products, AdminUsers>>
config == <<GEMINI_API_KEY, GCP_CREDENTIALS>>

(***************************************************************************)
(* Bounds of the model.                                                    *)
(***************************************************************************)
MaxReq == 2

(***************************************************************************)
(* Python values.  Every value carries its type, so that 12 and "12" are   *)
(* different values and str() is a real conversion.  A float is kept in    *)
(* tenths.                                                                 *)
(***************************************************************************)
PyNone == [t |-> "none", n |-> 0, s |-> ""]
PyStr(s) == [t |-> "str", n |-> 0, s |-> s]
PyInt(n) == [t |-> "int", n |-> n, s |-> ""]
PyFloat(tenths) == [t |-> "float", n |-> tenths, s |-> ""]

\* Python truthiness: None, "", 0 and 0.0 are false.
Truthy(v) ==
    CASE v.t = "none" -> FALSE
      [] v.t = "str" -> v.s # ""
      [] OTHER -> v.n # 0

\* Python ==: an int and a float compare by value, a str only with a str.
PyEq(a, b) ==
    CASE a.t = "str" /\ b.t = "str" -> a.s = b.s
      [] a.t = "int" /\ b.t = "int" -> a.n = b.n
      [] a.t = "float" /\ b.t = "float" -> a.n = b.n
      [] a.t = "int" /\ b.t = "float" -> a.n * 10 = b.n
      [] a.t = "float" /\ b.t = "int" -> a.n = b.n * 10
      [] a.t = "none" /\ b.t = "none" -> TRUE
      [] OTHER -> FALSE

Abs(n) == IF n < 0 THEN -n ELSE n

\* str(v) of line 125.
str(v) ==
    CASE v.t = "str" -> v
      [] v.t = "int" -> PyStr(ToString(v.n))
      [] v.t = "float" ->
            PyStr((IF v.n < 0 THEN "-" ELSE "") \o ToString(Abs(v.n) \div 10)
                  \o "." \o ToString(Abs(v.n) % 10))
      [] OTHER -> PyStr("None")

\* An empty dict.
EmptyDict == [k \in {} |-> PyNone]

\* d.get(k): the value under k, None when the key is absent.
Get(d, k) == IF k \in DOMAIN d THEN d[k] ELSE PyNone
\* d.get(k, default).
GetOr(d, k, default) == IF k \in DOMAIN d THEN d[k] ELSE default

(***************************************************************************)
(* Texts are sequences of characters.                                      *)
(***************************************************************************)
Whitespace == {" ", "\n"}

\* The backquote character, three of which make a Markdown code fence.
BQ == "backquote"

IsPrefixAt(s, pat, i) ==
    /\ i + Len(pat) - 1 <= Len(s)
    /\ \A k \in 1..Len(pat) : s[i + k - 1] = pat[k]

\* s.replace(pat, ''): every non-overlapping occurrence, left to right.
RECURSIVE ReplaceFrom(_, _, _)
ReplaceFrom(s, pat, i) ==
    IF i > Len(s) THEN <<>>
    ELSE IF IsPrefixAt(s, pat, i) THEN ReplaceFrom(s, pat, i + Len(pat))
    ELSE <<s[i]>> \o ReplaceFrom(s, pat, i + 1)

Replace(s, pat) == ReplaceFrom(s, pat, 1)

RECURSIVE LStrip(_)
LStrip(s) ==
    IF s # <<>> /\ Head(s) \in Whitespace THEN LStrip(Tail(s)) ELSE s

RECURSIVE RStrip(_)
RStrip(s) ==
    IF s # <<>> /\ s[Len(s)] \in Whitespace
    THEN RStrip(SubSeq(s, 1, Len(s) - 1)) ELSE s

\* s.strip()
Strip(s) == LStrip(RStrip(s))

FenceJson ==
    <<BQ, BQ, BQ, "j", "s", "o", "n">>
FenceBare ==
    <<BQ, BQ, BQ>>

\* A plausible slip: only the bare fence is removed and nothing is trimmed.
clean_json_string_bare(model_response_text) ==
    Replace(model_response_text, FenceBare)

\* Line 57: the two replace calls (fence with json tag, bare fence), then strip().
clean_json_string(model_response_text) ==
    Strip(Replace(Replace(model_response_text, FenceJson), FenceBare))

(***************************************************************************)
(* json.loads on the texts the AI service is taken to answer with.  Each   *)
(* text below is listed with the value the JSON grammar gives it; every    *)
(* other text the model feeds it is no JSON document and raises.           *)
(***************************************************************************)
DocPrice ==
    <<"{", "\"", "c", "a", "t", "e", "g", "o", "r", "y", "\"", ":", "\"", "P", "r", "i", "c", "e", "\"", ",", "\"", "s", "e", "n", "t", "i", "m", "e", "n", "t", "\"", ":", "0", ".", "5", "}">>
DocTaste ==
    <<"{", "\"", "c", "a", "t", "e", "g", "o", "r", "y", "\"", ":", "\"", "T", "a", "s", "t", "e", "\"", ",", "\"", "s", "e", "n", "t", "i", "m", "e", "n", "t", "\"", ":", "5", "}">>
DocNoCategory ==
    <<"{", "\"", "s", "e", "n", "t", "i", "m", "e", "n", "t", "\"", ":", "-", "1", "}">>
DocNoSentiment ==
    <<"{", "\"", "c", "a", "t", "e", "g", "o", "r", "y", "\"", ":", "\"", "O", "t", "h", "e", "r", "\"", "}">>
DocEmptyObject ==
    <<"{", "}">>
DocList ==
    <<"[", "]">>
DocFenceInside ==
    <<"{", "\"", "c", "a", "t", "e", "g", "o", "r", "y", "\"", ":", "\"", BQ, BQ, BQ, "\"", "}">>
DocFenceRemoved ==
    <<"{", "\"", "c", "a", "t", "e", "g", "o", "r", "y", "\"", ":", "\"", "\"", "}">>
DocWordSentiment ==
    <<"{", "\"", "s", "e", "n", "t", "i", "m", "e", "n", "t", "\"", ":", "\"", "h", "i", "g", "h", "\"", "}">>
TextSorry ==
    <<"S", "o", "r", "r", "y">>

JsonDocuments ==
    { [text |-> DocPrice, object |-> TRUE,
       value |-> [category |-> PyStr("Price"), sentiment |-> PyFloat(5)]],
      [text |-> DocTaste, object |-> TRUE,
       value |-> [category |-> PyStr("Taste"), sentiment |-> PyInt(5)]],
      [text |-> DocNoCategory, object |-> TRUE,
       value |-> [sentiment |-> PyInt(-1)]],
      [text |-> DocNoSentiment, object |-> TRUE,
       value |-> [category |-> PyStr("Other")]],
      [text |-> DocEmptyObject, object |-> TRUE, value |-> EmptyDict],
      [text |-> DocList, object |-> FALSE, value |-> EmptyDict],
      [text |-> DocFenceInside, object |-> TRUE,
       value |-> [category |-> PyStr("<three backquotes>")]],
      [text |-> DocFenceRemoved, object |-> TRUE,
       value |-> [category |-> PyStr("")]],
      [text |-> DocWordSentiment, object |-> TRUE,
       value |-> [sentiment |-> PyStr("high")]] }

\* json.loads(s): JSON allows whitespace around the document.
json_loads(s) ==
    LET found == {d \in JsonDocuments : d.text = Strip(s)}
    IN  IF found = {}
        THEN [ok |-> FALSE, object |-> FALSE, value |-> EmptyDict,
              err |-> "Expecting value: line 1 column 1 (char 0)"]
        ELSE LET d == CHOOSE d \in found : TRUE
             IN  [ok |-> TRUE, object |-> d.object, value |-> d.value, err |-> ""]

(***************************************************************************)
(* The Gemini endpoint, as the helpers see it: the POST raises, the status *)
(* is an error, the body lacks 'candidates', or it carries a reply text.   *)
(***************************************************************************)
PostRaises == [kind |-> "post_raises", text |-> <<>>]
HttpError == [kind |-> "http_error", text |-> <<>>]
NoCandidates == [kind |-> "no_candidates", text |-> <<>>]
Reply(text) == [kind |-> "reply", text |-> text]

\* Lines 58-59 on a reply text already cleaned.
ParseAnalysis(clean) ==
    LET analysis == json_loads(clean)
    IN  IF ~analysis.ok
        THEN [category |-> PyStr("AI_Error"), sentiment |-> PyInt(0),
              error |-> PyStr(analysis.err)]
        ELSE IF ~analysis.object
        THEN [category |-> PyStr("AI_Error"), sentiment |-> PyInt(0),
              error |-> PyStr("'list' object has no attribute 'get'")]
        ELSE [category |-> GetOr(analysis.value, "category", PyStr("Parse Error")),
              sentiment |-> GetOr(analysis.value, "sentiment", PyInt(0)),
              error |-> PyStr("")]

\* A plausible slip: a failed call is swallowed and reported as a clean result.
GeminiAnalysis_swallow(http) ==
    IF http.kind = "reply" THEN ParseAnalysis(clean_json_string(http.text))
    ELSE [category |-> PyStr("Other"), sentiment |-> PyInt(0), error |-> PyStr("")]

\* Lines 52-62: the try block and its except clause; the error is str(e).
GeminiAnalysis(http) ==
    CASE http.kind = "post_raises" ->
            [category |-> PyStr("AI_Error"), sentiment |-> PyInt(0),
             error |-> PyStr("Connection aborted.")]
      [] http.kind = "http_error" ->
            [category |-> PyStr("AI_Error"), sentiment |-> PyInt(0),
             error |-> PyStr("400 Client Error: Bad Request for url")]
      [] http.kind = "no_candidates" ->
            [category |-> PyStr("AI_Error"), sentiment |-> PyInt(0),
             error |-> PyStr("'candidates'")]
      [] OTHER -> ParseAnalysis(clean_json_string(http.text))

\* A plausible slip: the key check is dropped and the endpoint is always called.
analyze_with_gemini_nokeycheck(key, text, http) ==
    [posts |-> 1] @@ GeminiAnalysis(http)

\* Lines 44-62.  posts counts the calls of requests.post the helper made.
analyze_with_gemini(key, text, http) ==
    IF ~Truthy(key)
    THEN [posts |-> 0, category |-> PyStr("Config Error"), sentiment |-> PyInt(0),
          error |-> PyStr("GEMINI_API_KEY not set.")]
    ELSE [posts |-> 1] @@ GeminiAnalysis(http)

(***************************************************************************)
(* The spreadsheet service, as the handlers see it.                        *)
(***************************************************************************)
GspreadOutcomes == {"ok", "SpreadsheetNotFound", "WorksheetNotFound", "APIError"}

\* Lines 28-41.  gspread is what the service answers to this resolution.
get_sheet(worksheet_name, gspread) ==
    IF ~Truthy(GCP_CREDENTIALS)
    THEN [ok |-> FALSE, err |-> "GCP credentials are not loaded."]
    ELSE CASE gspread = "SpreadsheetNotFound" ->
                [ok |-> FALSE,
                 err |-> "Spreadsheet 'PharmaFeedbackApp' not found or not shared."]
           [] gspread = "WorksheetNotFound" ->
                [ok |-> FALSE,
                 err |-> "Worksheet '" \o worksheet_name
                         \o "' not found in the spreadsheet."]
           [] gspread = "APIError" ->
                [ok |-> FALSE, err |-> "A gspread error occurred: APIError"]
           [] OTHER -> [ok |-> TRUE, err |-> ""]

\* A plausible slip: the new row is inserted at the top of the table.
append_row_first(table, new_row) == <<new_row>> \o table

\* worksheet.append_row(new_row), line 112.
append_row(table, new_row) == Append(table, new_row)

\* Where a row sits in the table (rows differ by their timestamps).
RowPosition(table, row) == CHOOSE i \in 1..Len(table) : table[i] = row

\* lst[1:], line 98: an empty list stays empty.
DropFirst(lst) == IF lst = <<>> THEN <<>> ELSE Tail(lst)

(***************************************************************************)
(* Requests and responses.                                                 *)
(***************************************************************************)
Req == 1..MaxReq

Kinds == {"health_check", "get_products", "submit_feedback", "admin_login",
          "get_all_feedback", "generate_report"}

NoResponse == [code |-> 0, status |-> "", message |-> ""]
NoAnalysis ==
    [posts |-> 0, category |-> PyNone, sentiment |-> PyNone, error |-> PyNone]

\* A request body: whether it is JSON at all, its JSON object, the query args.
Body(json, data, args) == [json |-> json, data |-> data, args |-> args]
NoBody == Body(FALSE, EmptyDict, EmptyDict)

\* Line 111.
NewRow(timestamp, data, ai_analysis) ==
    [timestamp |-> PyStr(timestamp),
     productName |-> Get(data, "productName"),
     feedbackText |-> Get(data, "feedbackText"),
     suggestionText |-> Get(data, "suggestionText"),
     clientName |-> Get(data, "clientName"),
     clientEmail |-> Get(data, "clientEmail"),
     aiCategory |-> ai_analysis.category,
     aiSentiment |-> ai_analysis.sentiment,
     aiError |-> ai_analysis.error]

\* No row built yet.
NoRow == NewRow("", EmptyDict, NoAnalysis)

Idle ==
    [kind |-> "none", pc |-> "idle", body |-> NoBody, ai |-> NoAnalysis,
     http |-> "", timestamp |-> "", new_row |-> NoRow, read |-> <<>>,
     payload |-> <<>>, resp |-> NoResponse, fault |-> "", posts |-> 0, row |-> 0]

NewRequest(kind, body) ==
    [Idle EXCEPT !.kind = kind, !.pc = "get_sheet", !.body = body]

\* The return of a handler: its response, and the statement that raised, if any.
Return(r, resp, payload, fault) ==
    [req[r] EXCEPT !.pc = "done", !.resp = resp, !.payload = payload,
                   !.fault = fault]

Success(message) == [code |-> 200, status |-> "success", message |-> message]
Error(code, message) == [code |-> code, status |-> "error", message |-> message]

At(r, kind, pc) == req[r].kind = kind /\ req[r].pc = pc

(***************************************************************************)
(* The except clauses of the handlers.                                     *)
(***************************************************************************)
\* Line 92.
health_check_except(e) ==
    Error(500, "Server is running, but database connection failed: " \o e)
\* Line 102.
get_products_except(e) == Error(500, e)
\* Line 116.
submit_feedback_except(e) == Error(500, e)
\* Line 130.
admin_login_except(e) == Error(500, e)
\* A plausible slip: the handler lets the fault through (no response is built).
get_all_feedback_reraise(e) == [code |-> 0, status |-> "raised", message |-> e]
\* Line 140.
get_all_feedback_except(e) == Error(500, e)
\* Line 165.
generate_report_except(e) == Error(500, "Could not generate report.")

\* The except clause of the handler of a route.
HandlerExcept(kind, e) ==
    CASE kind = "health_check" -> health_check_except(e)
      [] kind = "get_products" -> get_products_except(e)
      [] kind = "submit_feedback" -> submit_feedback_except(e)
      [] kind = "admin_login" -> admin_login_except(e)
      [] kind = "get_all_feedback" -> get_all_feedback_except(e)
      [] OTHER -> generate_report_except(e)

\* The first statement of every try block: get_sheet(worksheet).  The handlers
\* see the service answer or miss the worksheet; health_check, which does
\* nothing else, sees every outcome of get_sheet.
Resolve(r, kind, worksheet, next_pc) ==
    /\ At(r, kind, "get_sheet")
    /\ \E gspread \in {"ok", "WorksheetNotFound"} :
          LET sheet == get_sheet(worksheet, gspread)
          IN  req' = [req EXCEPT ![r] =
                        IF sheet.ok THEN [req[r] EXCEPT !.pc = next_pc]
                        ELSE Return(r, HandlerExcept(kind, sheet.err), <<>>,
                                    "get_sheet")]
    /\ UNCHANGED <<tables, config, arrived, clock, fence>>

(***************************************************************************)
(* GET /health, lines 83-92.                                               *)
(***************************************************************************)
health_check(r) ==
    /\ At(r, "health_check", "get_sheet")
    /\ \E gspread \in GspreadOutcomes :
          LET sheet == get_sheet("Feedback", gspread)
          IN  req' = [req EXCEPT ![r] =
                        IF sheet.ok
                        THEN Return(r, [code |-> 200, status |-> "ok", message |->
                                 "Server is running and can connect to Google Sheets."],
                                    <<>>, "")
                        ELSE Return(r, health_check_except(sheet.err), <<>>,
                                    "get_sheet")]
    /\ UNCHANGED <<tables, config, arrived, clock, fence>>

(***************************************************************************)
(* GET /get-products, lines 94-102.                                        *)
(***************************************************************************)
get_products(r) ==
    \/ Resolve(r, "get_products", "Products", "col_values")
    \/ /\ At(r, "get_products", "col_values")
       /\ \E gspread \in {"ok", "APIError"} :
             req' = [req EXCEPT ![r] =
                       IF gspread = "ok"
                       THEN Return(r, Success(""), DropFirst(Products), "")
                       ELSE Return(r, get_products_except(gspread), <<>>,
                                   "col_values")]
       /\ UNCHANGED <<tables, config, arrived, clock, fence>>

(***************************************************************************)
(* POST /submit-feedback, lines 104-116.                                   *)
(***************************************************************************)
\* The replies of the AI service to an annotation prompt.
AnalysisOutcomes ==
    {PostRaises}
    \cup {Reply(t) : t \in {FenceJson \o <<"\n">> \o DocPrice \o <<"\n">> \o FenceBare,
                            DocTaste, DocNoCategory, TextSorry}}

\* Line 110: datetime.utcnow().isoformat() + "Z".
Timestamp(now) == "T" \o ToString(now) \o "Z"

submit_feedback(r) ==
    \/ Resolve(r, "submit_feedback", "Feedback", "analyze")
    \/ \* lines 108-109: request.json, the prompt text, analyze_with_gemini
       /\ At(r, "submit_feedback", "analyze")
       /\ LET data == req[r].body.data
          IN  IF ~req[r].body.json
              THEN req' = [req EXCEPT ![r] =
                     Return(r, submit_feedback_except("415 Unsupported Media Type"),
                            <<>>, "request.json")]
              ELSE IF "feedbackText" \notin DOMAIN data
              THEN req' = [req EXCEPT ![r] =
                     Return(r, submit_feedback_except("'feedbackText'"), <<>>,
                            "data['feedbackText']")]
              ELSE IF "suggestionText" \notin DOMAIN data
              THEN req' = [req EXCEPT ![r] =
                     Return(r, submit_feedback_except("'suggestionText'"), <<>>,
                            "data['suggestionText']")]
              ELSE \E http \in AnalysisOutcomes :
                     LET ai_analysis ==
                           analyze_with_gemini(GEMINI_API_KEY,
                               <<data["feedbackText"], data["suggestionText"]>>, http)
                     IN  req' = [req EXCEPT ![r] =
                            [req[r] EXCEPT !.pc = "utcnow", !.ai = ai_analysis,
                                           !.http = http.kind,
                                           !.posts = @ + ai_analysis.posts]]
       /\ UNCHANGED <<tables, config, arrived, clock, fence>>
    \/ \* line 110
       /\ At(r, "submit_feedback", "utcnow")
       /\ req' = [req EXCEPT ![r] =
                    [req[r] EXCEPT !.pc = "append_row",
                                   !.timestamp = Timestamp(clock)]]
       /\ clock' = clock + 1
       /\ UNCHANGED <<tables, config, arrived, fence>>
    \/ \* lines 111-113
       /\ At(r, "submit_feedback", "append_row")
       /\ LET new_row == NewRow(req[r].timestamp, req[r].body.data, req[r].ai)
          IN  \E gspread \in {"ok", "APIError"} :
                 IF gspread = "ok"
                 THEN /\ Feedback' = append_row(Feedback, new_row)
                      /\ req' = [req EXCEPT ![r] =
                            [Return(r, Success("Feedback submitted."), <<>>, "")
                               EXCEPT !.new_row = new_row,
                                      !.row = RowPosition(Feedback', new_row)]]
                 ELSE /\ Feedback' = Feedback
                      /\ req' = [req EXCEPT ![r] =
                            [Return(r, submit_feedback_except(gspread), <<>>,
                                    "append_row")
                               EXCEPT !.new_row = new_row]]
       /\ UNCHANGED <<Products, AdminUsers, config, arrived, clock, fence>>

(***************************************************************************)
(* POST /admin-login, lines 118-130.                                       *)
(***************************************************************************)
\* A plausible slip: only the username is compared.
RowMatches_username_only(user, data) ==
    IF "Username" \notin DOMAIN user THEN "'Username'"
    ELSE IF "username" \notin DOMAIN data THEN "'username'"
    ELSE IF PyEq(user["Username"], data["username"]) THEN "match"
    ELSE "no match"

\* Line 125, evaluated left to right with the short-circuit of "and": "match",
\* "no match", or the key whose lookup raised KeyError.
RowMatches(user, data) ==
    IF "Username" \notin DOMAIN user THEN "'Username'"
    ELSE IF "username" \notin DOMAIN data THEN "'username'"
    ELSE IF ~PyEq(user["Username"], data["username"]) THEN "no match"
    ELSE IF "Password" \notin DOMAIN user THEN "'Password'"
    ELSE IF "password" \notin DOMAIN data THEN "'password'"
    ELSE IF PyEq(str(user["Password"]), data["password"]) THEN "match"
    ELSE "no match"

\* Lines 124-127: the scan in table order; returns at the first match, raises
\* at the first failing lookup.
RECURSIVE Scan(_, _)
Scan(users, data) ==
    IF users = <<>> THEN "exhausted"
    ELSE LET m == RowMatches(Head(users), data)
         IN  IF m = "match" THEN "match"
             ELSE IF m = "no match" THEN Scan(Tail(users), data)
             ELSE m

\* Lines 124-130 on the records read.
LoginResponse(users, data) ==
    LET outcome == Scan(users, data)
    IN  IF outcome = "match" THEN Success("Login successful.")
        ELSE IF outcome = "exhausted" THEN Error(401, "Invalid credentials.")
        ELSE admin_login_except(outcome)

admin_login(r) ==
    \/ Resolve(r, "admin_login", "AdminUsers",
               "get_all_records")
    \/ \* lines 122-127
       /\ At(r, "admin_login", "get_all_records")
       /\ IF ~req[r].body.json
          THEN req' = [req EXCEPT ![r] =
                 Return(r, admin_login_except("415 Unsupported Media Type"), <<>>,
                        "request.json")]
          ELSE \E gspread \in {"ok", "APIError"} :
                 IF gspread # "ok"
                 THEN req' = [req EXCEPT ![r] =
                        Return(r, admin_login_except(gspread), <<>>,
                               "get_all_records")]
                 ELSE LET resp == LoginResponse(AdminUsers, req[r].body.data)
                      IN  req' = [req EXCEPT ![r] =
                             [Return(r, resp, <<>>,
                                     IF resp.code = 500 THEN "scan" ELSE "")
                                EXCEPT !.read = AdminUsers]]
       /\ UNCHANGED <<tables, config, arrived, clock, fence>>

(***************************************************************************)
(* GET /get-all-feedback, lines 132-140.                                   *)
(***************************************************************************)
get_all_feedback(r) ==
    \/ Resolve(r, "get_all_feedback", "Feedback",
               "get_all_records")
    \/ /\ At(r, "get_all_feedback", "get_all_records")
       /\ \E gspread \in {"ok", "APIError"} :
             req' = [req EXCEPT ![r] =
                       IF gspread = "ok"
                       THEN [Return(r, Success(""), Feedback, "")
                               EXCEPT !.read = Feedback]
                       ELSE Return(r, get_all_feedback_except(gspread), <<>>,
                                   "get_all_records")]
       /\ UNCHANGED <<tables, config, arrived, clock, fence>>

(***************************************************************************)
(* GET /generate-report, lines 142-165.                                    *)
(***************************************************************************)
\* The replies of the AI service to a report prompt, as the lines of the text.
ReportOutcomes ==
    {PostRaises, HttpError,
     Reply(<<"Overall Summary", "", " ", "Recommendations">>)}

\* Lines 64-78.  posts counts the calls of requests.post the helper made.
generate_text_with_gemini(key, prompt, http) ==
    IF ~Truthy(key)
    THEN [posts |-> 0, text |-> <<"Error: GEMINI_API_KEY not set.">>]
    ELSE IF http.kind = "reply"
    THEN [posts |-> 1, text |-> http.text]
    ELSE [posts |-> 1, text |-> <<"Error: Could not generate report text from AI.">>]

\* Lines 156-158: one paragraph per line that is not blank after trimming.
IsBlank(line) == line \in {"", " "}
Paragraphs(lines) == SelectSeq(lines, LAMBDA line : ~IsBlank(line))

\* A plausible slip: the report text is generated before the emptiness check.
ReportIsEmpty_never(all_feedback) == FALSE

\* Line 148: "if not all_feedback".
ReportIsEmpty(all_feedback) == all_feedback = <<>>

generate_report(r) ==
    \/ Resolve(r, "generate_report", "Feedback",
               "get_all_records")
    \/ \* lines 146-149
       /\ At(r, "generate_report", "get_all_records")
       /\ \E gspread \in {"ok", "APIError"} :
             req' = [req EXCEPT ![r] =
                       IF gspread # "ok"
                       THEN Return(r, generate_report_except(gspread), <<>>,
                                   "get_all_records")
                       ELSE IF ReportIsEmpty(Feedback)
                       THEN [Return(r, Error(404,
                                       "No feedback data to generate a report."),
                                    <<>>, "")
                               EXCEPT !.read = Feedback, !.pc = "done"]
                       ELSE [req[r] EXCEPT !.read = Feedback,
                                           !.pc = "generate_text"]]
       /\ UNCHANGED <<tables, config, arrived, clock, fence>>
    \/ \* lines 151-162
       /\ At(r, "generate_report", "generate_text")
       /\ \E http \in ReportOutcomes :
             LET lang == GetOr(req[r].body.args, "lang", PyStr("english"))
                 generated == generate_text_with_gemini(GEMINI_API_KEY,
                                                        req[r].read, http)
             IN  req' = [req EXCEPT ![r] =
                    [Return(r, [code |-> 200, status |-> "attachment", message |->
                                  "Pharma_Feedback_Report_" \o lang.s \o ".docx"],
                            <<"Customer Feedback Report">>
                               \o Paragraphs(generated.text), "")
                       EXCEPT !.posts = @ + generated.posts, !.http = http.kind]]
       /\ UNCHANGED <<tables, config, arrived, clock, fence>>

(***************************************************************************)
(* Request arrival.                                                        *)
(***************************************************************************)
ScenarioFeedback ==
    [productName |-> PyStr("X"), feedbackText |-> PyStr("Great"),
     suggestionText |-> PyStr("None"), clientName |-> PyStr("A"),
     clientEmail |-> PyStr("a@x.com")]

Without(d, k) == [x \in DOMAIN d \ {k} |-> d[x]]

Credentials(username, password) ==
    [username |-> username, password |-> password]

\* The bodies the clients send, per route.
Bodies(kind) ==
    CASE kind = "submit_feedback" ->
            {Body(TRUE, ScenarioFeedback, EmptyDict),
             Body(TRUE, Without(ScenarioFeedback, "feedbackText"), EmptyDict),
             NoBody}
      [] kind = "admin_login" ->
            {Body(TRUE, Credentials(PyStr("admin"), PyStr("right")), EmptyDict),
             Body(TRUE, Credentials(PyStr("admin"), PyStr("wrong")), EmptyDict)}
      [] kind = "generate_report" ->
            {NoBody, Body(FALSE, EmptyDict, [lang |-> PyStr("french")])}
      [] OTHER -> {NoBody}

Arrive(kind, body) ==
    /\ arrived < MaxReq
    /\ arrived' = arrived + 1
    /\ req' = [req EXCEPT ![arrived + 1] = NewRequest(kind, body)]
    /\ UNCHANGED <<tables, config, clock, fence>>

(***************************************************************************)
(* The initial state: the environment read at import, the tables as the    *)
(* spreadsheet holds them, no request received.                            *)
(***************************************************************************)
OldRow ==
    [timestamp |-> PyStr("T0Z"), productName |-> PyStr("X"),
     feedbackText |-> PyStr("Fine"), suggestionText |-> PyStr(""),
     clientName |-> PyStr("B"), clientEmail |-> PyStr("b@x.com"),
     aiCategory |-> PyStr("Efficacy"), aiSentiment |-> PyFloat(3),
     aiError |-> PyStr("")]

User(username, password) == [Username |-> username, Password |-> password]

\* The study of classify on one reply text: nothing computed yet.
NoFence ==
    [text |-> <<>>, wrapped |-> <<>>, plain |-> NoAnalysis, fenced |-> NoAnalysis,
     failed |-> NoAnalysis, raw |-> <<>>, once |-> <<>>, twice |-> <<>>,
     did |-> {}]

Init ==
    /\ GEMINI_API_KEY \in {PyNone, PyStr("key")}
    /\ GCP_CREDENTIALS \in {PyNone, PyStr("service account")}
    /\ Feedback \in {<<>>, <<OldRow>>}
    /\ Products = <<PyStr("Product"), PyStr("Aspirin")>>
    /\ AdminUsers = <<User(PyStr("admin"), PyStr("right"))>>
    /\ req = [r \in Req |-> Idle]
    /\ arrived = 0
    /\ clock = 1
    /\ fence = NoFence

Next ==
    \/ \E kind \in Kinds : \E body \in Bodies(kind) : Arrive(kind, body)
    \/ \E r \in Req : health_check(r)
    \/ \E r \in Req : get_products(r)
    \/ \E r \in Req : submit_feedback(r)
    \/ \E r \in Req : admin_login(r)
    \/ \E r \in Req : get_all_feedback(r)
    \/ \E r \in Req : generate_report(r)

Spec == Init /\ [][Next]_vars

(***************************************************************************)
(* admin-login alone, over more tables and more credentials.               *)
(***************************************************************************)
MaxLogins == 1

Usernames == {PyStr("admin"), PyStr("bob")}
Passwords == {PyStr("right"), PyStr("wrong"), PyStr("12"), PyInt(12)}

LoginBodies ==
    {Body(TRUE, Credentials(u, p), EmptyDict) : u \in Usernames, p \in Passwords}
    \cup {Body(TRUE, Without(Credentials(PyStr("admin"), PyStr("right")), k),
               EmptyDict) : k \in {"username", "password"}}
    \cup {NoBody}

\* get_all_records gives every row the columns of the header row.
AdminTables ==
    { <<>>,
      <<User(PyStr("admin"), PyStr("right"))>>,
      <<User(PyStr("bob"), PyInt(12)), User(PyStr("admin"), PyStr("right"))>>,
      <<User(PyStr("admin"), PyStr("right")), User(PyStr("bob"), PyInt(12))>>,
      <<User(PyStr("admin"), PyStr("wrong")), User(PyStr("admin"), PyStr("right"))>>,
      <<User(PyStr("bob"), PyStr("12")), User(PyStr("admin"), PyStr("12")),
        User(PyStr("admin"), PyStr("right"))>>,
      <<[Username |-> PyStr("bob")], [Username |-> PyStr("admin")]>>,
      <<[Password |-> PyStr("right")]>> }

InitLogin ==
    /\ GEMINI_API_KEY = PyStr("key")
    /\ GCP_CREDENTIALS \in {PyNone, PyStr("service account")}
    /\ Feedback = <<>>
    /\ Products = <<PyStr("Product"), PyStr("Aspirin")>>
    /\ AdminUsers \in AdminTables
    /\ req = [r \in Req |-> Idle]
    /\ arrived = 0
    /\ clock = 1
    /\ fence = NoFence

ArriveLogin(body) ==
    /\ arrived < MaxLogins
    /\ arrived' = arrived + 1
    /\ req' = [req EXCEPT ![arrived + 1] = NewRequest("admin_login", body)]
    /\ UNCHANGED <<tables, config, clock, fence>>

NextLogin ==
    \/ \E body \in LoginBodies : ArriveLogin(body)
    \/ \E r \in Req : admin_login(r)

SpecLogin == InitLogin /\ [][NextLogin]_vars

(***************************************************************************)
(* classify (analyze_with_gemini) alone: one reply text, annotated as it   *)
(* is and inside a Markdown fence, and its cleaning applied once and twice.*)
(***************************************************************************)
ReplyDocuments ==
    {DocPrice, DocTaste, DocNoCategory, DocNoSentiment, DocEmptyObject, DocList,
     DocFenceInside, DocWordSentiment, TextSorry}

Pads == {<<>>, <<" ">>, <<"\n">>}
Gaps == {<<>>, <<"\n">>}

ReplyTexts == {l \o d \o t : l \in {<<>>, <<"\n">>}, d \in ReplyDocuments, t \in Pads}

\* J between a fence opened with the json tag and a closing fence.
Wrap(text, open, close) == FenceJson \o open \o text \o close \o FenceBare

InitClassify ==
    /\ GEMINI_API_KEY \in {PyNone, PyStr(""), PyStr("key")}
    /\ GCP_CREDENTIALS = PyStr("service account")
    /\ Feedback = <<>>
    /\ Products = <<PyStr("Product"), PyStr("Aspirin")>>
    /\ AdminUsers = <<User(PyStr("admin"), PyStr("right"))>>
    /\ req = [r \in Req |-> Idle]
    /\ arrived = 0
    /\ clock = 1
    /\ \E text \in ReplyTexts : fence = [NoFence EXCEPT !.text = text]

ClassifyPlain ==
    /\ "plain" \notin fence.did
    /\ fence' = [fence EXCEPT
                   !.plain = analyze_with_gemini(GEMINI_API_KEY, <<>>, Reply(fence.text)),
                   !.did = @ \cup {"plain"}]
    /\ UNCHANGED <<tables, config, req, arrived, clock>>

ClassifyFenced(open, close) ==
    /\ "fenced" \notin fence.did
    /\ LET wrapped == Wrap(fence.text, open, close)
       IN  fence' = [fence EXCEPT
                       !.wrapped = wrapped,
                       !.fenced = analyze_with_gemini(GEMINI_API_KEY, <<>>,
                                                      Reply(wrapped)),
                       !.did = @ \cup {"fenced"}]
    /\ UNCHANGED <<tables, config, req, arrived, clock>>

ClassifyUnreachable(http) ==
    /\ "failed" \notin fence.did
    /\ fence' = [fence EXCEPT
                   !.failed = analyze_with_gemini(GEMINI_API_KEY, <<>>, http),
                   !.did = @ \cup {"failed"}]
    /\ UNCHANGED <<tables, config, req, arrived, clock>>

StripOnce ==
    /\ "fenced" \in fence.did
    /\ "once" \notin fence.did
    /\ \E raw \in {fence.text, fence.wrapped} :
          fence' = [fence EXCEPT !.raw = raw, !.once = clean_json_string(raw),
                                 !.did = @ \cup {"once"}]
    /\ UNCHANGED <<tables, config, req, arrived, clock>>

StripAgain ==
    /\ "once" \in fence.did
    /\ "twice" \notin fence.did
    /\ fence' = [fence EXCEPT !.twice = clean_json_string(fence.once),
                              !.did = @ \cup {"twice"}]
    /\ UNCHANGED <<tables, config, req, arrived, clock>>

NextClassify ==
    \/ ClassifyPlain
    \/ \E open \in Gaps : \E close \in Gaps : ClassifyFenced(open, close)
    \/ \E http \in {PostRaises, HttpError, NoCandidates} : ClassifyUnreachable(http)
    \/ StripOnce
    \/ StripAgain

SpecClassify == InitClassify /\ [][NextClassify]_vars

(***************************************************************************)
(* Properties.                                                             *)
(***************************************************************************)
IsDone(r) == req[r].pc = "done"
IsSubmit(r) == req[r].kind = "submit_feedback"
IsLogin(r) == req[r].kind = "admin_login"
IsReport(r) == req[r].kind = "generate_report"

\* The body is JSON and carries feedbackText and suggestionText.
ValidSubmission(r) ==
    /\ req[r].body.json
    /\ {"feedbackText", "suggestionText"} \subseteq DOMAIN req[r].body.data

\* Neither the table resolution nor the append raised.
StoreSucceeded(r) == req[r].fault \notin {"get_sheet", "append_row"}

\* The AI endpoint was called and the call failed.
AiCallFailed(r) ==
    /\ req[r].posts = 1
    /\ req[r].http \in {"post_raises", "http_error", "no_candidates"}

RowsEqualTo(row) == {i \in 1..Len(Feedback) : Feedback[i] = row}

\* C1: a valid submit-feedback whose table resolution and append succeed gets
\* the success response and has exactly one row in the Feedback table, the one
\* it built, also when the AI call failed; after a failed AI call that row has
\* aiCategory "AI_Error", aiSentiment 0 and a non-empty aiError.  The table
\* holds one new row per such request and no other new row.
C1_OneRowEvenWhenAiFails ==
    /\ \A r \in Req :
          (IsSubmit(r) /\ IsDone(r) /\ ValidSubmission(r) /\ StoreSucceeded(r)) =>
             /\ req[r].resp.code = 200
             /\ req[r].resp.status = "success"
             /\ Cardinality(RowsEqualTo(req[r].new_row)) = 1
             /\ AiCallFailed(r) =>
                   /\ req[r].new_row.aiCategory = PyStr("AI_Error")
                   /\ req[r].new_row.aiSentiment = PyInt(0)
                   /\ req[r].new_row.aiError.t = "str"
                   /\ req[r].new_row.aiError.s # ""
    /\ Cardinality({i \in 1..Len(Feedback) : Feedback[i] # OldRow})
         = Cardinality({r \in Req : /\ IsSubmit(r) /\ IsDone(r)
                                    /\ ValidSubmission(r) /\ StoreSucceeded(r)})

C1_Witness ==
    \E r \in Req :
       /\ IsSubmit(r) /\ IsDone(r) /\ AiCallFailed(r)
       /\ req[r].body.data = ScenarioFeedback
       /\ req[r].resp.status = "success"
       /\ req[r].row >= 1
       /\ Feedback[req[r].row].aiCategory = PyStr("AI_Error")

\* C3: submit-feedback returns a failure only if the append to the Feedback
\* table (its resolution included) fails: every request with a JSON body whose
\* response is a failure failed in get_sheet or in append_row.
C3_FailsOnlyWhenAppendFails ==
    \A r \in Req :
       (IsSubmit(r) /\ IsDone(r) /\ req[r].body.json /\ req[r].resp.code # 200) =>
          req[r].fault \in {"get_sheet", "append_row"}

\* C4: generate-report that reads an empty Feedback table answers 404 and has
\* made no AI call; a generate-report request reaches the AI call, and makes
\* it, only with a non-empty list of records read.
C4_EmptyReportNeverCallsAi ==
    \A r \in Req :
       IsReport(r) =>
          /\ (IsDone(r) /\ req[r].fault = "" /\ req[r].read = <<>>) =>
                /\ req[r].resp = Error(404, "No feedback data to generate a report.")
                /\ req[r].posts = 0
          /\ req[r].posts > 0 => req[r].read # <<>>
          /\ req[r].pc = "generate_text" => req[r].read # <<>>

C4_Witness ==
    \E r \in Req :
       /\ IsReport(r) /\ IsDone(r) /\ req[r].fault = "" /\ req[r].read = <<>>
       /\ req[r].resp.code = 404
       /\ Truthy(GEMINI_API_KEY)

\* C5: every finished request carries a response; a response other than 200
\* is the envelope {status: "error", message}; a fault raised in the handler
\* gives 500; 401 is given only by admin-login after a scan without a match,
\* 404 only by generate-report that read no records.
C5_EveryFaultBecomesAnEnvelope ==
    \A r \in Req :
       IsDone(r) =>
          /\ req[r].resp.code \in {200, 401, 404, 500}
          /\ req[r].resp.code # 200 =>
                /\ req[r].resp.status = "error"
                /\ req[r].resp.message # ""
          /\ req[r].fault # "" => req[r].resp.code = 500
          /\ req[r].resp.code = 500 => req[r].fault # ""
          /\ req[r].resp.code = 401 =>
                /\ IsLogin(r)
                /\ Scan(req[r].read, req[r].body.data) = "exhausted"
          /\ req[r].resp.code = 404 => IsReport(r) /\ req[r].read = <<>>

C5_Witness ==
    /\ \E r \in Req : IsDone(r) /\ req[r].kind = "get_all_feedback"
                      /\ req[r].fault = "get_all_records" /\ req[r].resp.code = 500
    /\ \E r \in Req : IsDone(r) /\ IsLogin(r) /\ req[r].resp.code = 401

\* C6: with the API key empty or missing, analyze_with_gemini returns category
\* "Config Error", sentiment 0 and a non-empty error for every text and every
\* state of the endpoint, and makes no call of the endpoint.
C6_NoKeyNoCall ==
    ~Truthy(GEMINI_API_KEY) =>
       \A which \in fence.did \cap {"plain", "fenced", "failed"} :
          LET result == CASE which = "plain" -> fence.plain
                          [] which = "fenced" -> fence.fenced
                          [] OTHER -> fence.failed
          IN  /\ result.category = PyStr("Config Error")
              /\ result.sentiment = PyInt(0)
              /\ result.error.t = "str" /\ result.error.s # ""
              /\ result.posts = 0

C6_Witness ==
    /\ GEMINI_API_KEY = PyStr("")
    /\ {"plain", "fenced", "failed"} \subseteq fence.did
    /\ fence.plain.category = PyStr("Config Error")

\* The text is a JSON document whose value is an object.
IsJsonObject(text) == json_loads(text).ok /\ json_loads(text).object

\* C7: for a reply text J that is a valid JSON object, J alone and J between a
\* fence opened with the json tag and a closing fence yield the same category
\* and sentiment; cleaning an already cleaned reply changes nothing.
C7_FenceStrippingIdempotent ==
    /\ ({"plain", "fenced"} \subseteq fence.did /\ IsJsonObject(fence.text)) =>
          /\ fence.plain.category = fence.fenced.category
          /\ fence.plain.sentiment = fence.fenced.sentiment
    /\ "twice" \in fence.did => fence.twice = fence.once

C7_Witness ==
    /\ {"plain", "fenced", "twice"} \subseteq fence.did
    /\ IsJsonObject(fence.text)
    /\ fence.fenced.category = PyStr("Price")
    /\ fence.fenced.sentiment = PyFloat(5)
    /\ fence.raw = fence.wrapped
    /\ fence.once # fence.raw

\* The categories the prompt names, and the failure sentinels.
Categories ==
    {"Packaging", "Formula", "Color", "Smell", "Efficacy", "Side Effect", "Price",
     "Documentation", "Other"}
Sentinels == {"Config Error", "AI_Error", "Parse Error"}

\* A number in [-1.0, 1.0].
InSentimentRange(v) ==
    \/ v.t = "int" /\ -1 <= v.n /\ v.n <= 1
    \/ v.t = "float" /\ -10 <= v.n /\ v.n <= 10

\* C8: every row of the Feedback table has aiCategory among the nine
\* categories or the three sentinels, and aiSentiment a number in [-1.0, 1.0].
C8_StoredAnnotationsInRange ==
    \A i \in 1..Len(Feedback) :
       /\ Feedback[i].aiCategory.t = "str"
       /\ Feedback[i].aiCategory.s \in Categories \cup Sentinels
       /\ InSentimentRange(Feedback[i].aiSentiment)

\* C9: in every step the Feedback table stays as it is or gains one row at its
\* end, with the rows it had unchanged; the step that adds the row is the
\* append_row statement of a submit-feedback request; the Products and
\* AdminUsers tables never change.
C9_FeedbackAppendOnly ==
    [][ /\ Products' = Products
        /\ AdminUsers' = AdminUsers
        /\ \/ Feedback' = Feedback
           \/ /\ Len(Feedback') = Len(Feedback) + 1
              /\ SubSeq(Feedback', 1, Len(Feedback)) = Feedback
              /\ \E r \in Req : /\ IsSubmit(r)
                                /\ req[r].pc = "append_row"
                                /\ req'[r].pc = "done"
                                /\ Feedback'[Len(Feedback')] = req'[r].new_row
      ]_vars

C9_Witness ==
    /\ Len(Feedback) >= 2
    /\ \E r \in Req : IsSubmit(r) /\ IsDone(r) /\ req[r].row = Len(Feedback)
    /\ \E r \in Req : ~IsSubmit(r) /\ IsDone(r) /\ req[r].resp.code = 200

\* C10, as claimed: if submit-feedback request A arrives before request B
\* (requests are numbered in arrival order) and both succeed, A's row precedes
\* B's row in the Feedback table.
C10_RowsFollowArrival ==
    \A a, b \in Req :
       (a < b /\ req[a].row # 0 /\ req[b].row # 0) => req[a].row < req[b].row

\* C10, amended: rows follow the order of the append_row calls.  When a
\* request appends its row, the row of every request that appended before it
\* is still where it was put and precedes the new row.
C10_RowsFollowAppendOrder ==
    [][ \A a, b \in Req :
           (req[a].row # 0 /\ req[b].row = 0 /\ req'[b].row # 0) =>
              /\ req'[a].row = req[a].row
              /\ Feedback'[req[a].row] = req[a].new_row
              /\ req[a].row < req'[b].row
      ]_vars

C10_Witness ==
    \E a, b \in Req :
       /\ a < b
       /\ req[a].row # 0 /\ req[b].row # 0
       /\ req[b].row < req[a].row

(***************************************************************************)
(* Properties of admin-login.                                              *)
(***************************************************************************)
\* The records of AdminUsers were read and the scan ran.
LoginScanned(r) ==
    /\ IsLogin(r) /\ IsDone(r)
    /\ req[r].fault \notin {"get_sheet", "request.json", "get_all_records"}

HasColumns(users) ==
    \A i \in 1..Len(users) : {"Username", "Password"} \subseteq DOMAIN users[i]

HasCredentials(data) == {"username", "password"} \subseteq DOMAIN data

Reordered(users, q) == [i \in 1..Len(users) |-> users[q[i]]]

\* C2, as claimed: success iff some row has a Username exactly equal to the
\* submitted username and a Password exactly equal to the submitted password,
\* otherwise 401 "Invalid credentials." (taken for the requests whose scan ran
\* over a table with both columns and whose body carries both fields).
C2_ExactMatch ==
    \A r \in Req :
       LET users == req[r].read
           data == req[r].body.data
       IN  (LoginScanned(r) /\ HasColumns(users) /\ HasCredentials(data)) =>
              IF \E i \in 1..Len(users) :
                    /\ users[i]["Username"] = data["username"]
                    /\ users[i]["Password"] = data["password"]
              THEN req[r].resp = Success("Login successful.")
              ELSE req[r].resp = Error(401, "Invalid credentials.")

\* C2, amended: success iff some row has a Username equal to the submitted
\* username and a Password whose string form, str(Password), equals the
\* submitted password; otherwise 401 "Invalid credentials.".  The outcome is
\* the same for every ordering of the rows read.
C2_MatchOnStringForm ==
    \A r \in Req :
       LET users == req[r].read
           data == req[r].body.data
       IN  LoginScanned(r) =>
              /\ (HasColumns(users) /\ HasCredentials(data)) =>
                    IF \E i \in 1..Len(users) :
                          /\ PyEq(users[i]["Username"], data["username"])
                          /\ PyEq(str(users[i]["Password"]), data["password"])
                    THEN req[r].resp = Success("Login successful.")
                    ELSE req[r].resp = Error(401, "Invalid credentials.")
              /\ \A q \in Permutations(1..Len(users)) :
                    LoginResponse(Reordered(users, q), data).code = req[r].resp.code

C2_Witness ==
    \E r \in Req :
       /\ LoginScanned(r)
       /\ req[r].resp = Success("Login successful.")
       /\ Len(req[r].read) >= 2
       /\ req[r].read[1]["Username"] # req[r].body.data["username"]
       /\ req[r].read[2]["Password"] = PyInt(12)
       /\ req[r].body.data["password"] = PyStr("12")

====
